---- MODULE Spec2Model ----
(***************************************************************************)
(* Model of the MindmapViewer component (src/unnamed/part_000) and of the  *)
(* upload client uploadPDF (src/frontend/project/src/lib/api.js).          *)
(*                                                                         *)
(* Scales are held in tenths (1.0 is 10).  The code computes on IEEE       *)
(* doubles; from 1.0 the steps of 0.1 with the clamps reach 45 doubles,    *)
(* each within 1e-15 of a multiple of 0.1 and each with                    *)
(* Math.round(scale * 100) equal to that multiple times 100, so the tenth  *)
(* is the value the component shows and compares.                          *)
(*                                                                         *)
(* Time is held in milliseconds and advances to the due time of the timer  *)
(* that runs: a browser may run a timer late, never out of order, and the  *)
(* order of the callbacks is what the component's state depends on.        *)
(***************************************************************************)
EXTENDS Integers, Sequences, FiniteSets, TLC

\* ------------------------------------------------------------- bounds
MaxLen == 2
MaxTimers == 3
MaxZoomClicks == 1
MaxExports == 1
MaxUploads == 1

\* -------------------------------------------------- program constants
STAGGER == 300
DefaultScale == 10
MinScale == 5
MaxScale == 20
ZoomStep == 1

\* ------------------------------------------------------------- inputs
\* the prop: a list of entries, or absent (undefined)
Absent == [present |-> FALSE, list |-> <<>>]
WS == {" ", "\t"}
EntryA == [title |-> <<"a", " ", "\t", "b">>, code |-> "c1"]
EntryB == [title |-> <<"n">>, code |-> "c2"]
\* the lists of n entries that alternate between the two entries
Lists(n) ==
  { [k \in 1 .. n |-> IF k % 2 = 1 THEN EntryA ELSE EntryB],
    [k \in 1 .. n |-> IF k % 2 = 1 THEN EntryB ELSE EntryA] }
Props ==
  {[present |-> TRUE, list |-> s] : s \in UNION {Lists(n) : n \in 0 .. MaxLen}}
    \cup {Absent}
Msgs == {"m1", "m2"}
Indices == 0 .. (MaxLen - 1)

VARIABLES
  mindmaps,    \* the mindmaps prop of the latest render
  view,        \* "list", "placeholder", or "none" once the tree is torn down
  slots,       \* the mounted cards, by index: element, injected html, title, shown percentage
  zoomStates,  \* the zoomStates view state
  timers,      \* pending setTimeout callbacks with what their closures captured
  inflight,    \* pending promises of mermaid.render with what their handlers captured
  issued,      \* the mermaid.render calls made so far
  passNo,      \* number of runs of the effect
  work,        \* timers scheduled so far, a run that schedules none counting one
  now,         \* clock, in ms
  crashed,     \* an error left the component
  clicks,      \* number of zoom clicks
  downloads,   \* log of the downloads triggered
  bodyLinks,   \* temporary links in document.body
  liveUrls,    \* object URLs created and not revoked
  urlNo,       \* number of object URLs created
  exported,    \* the indices whose export button was clicked, in order
  console,     \* what console.error received from the component
  upPc,        \* uploadPDF: position in the function
  upReq,       \* uploadPDF: the file, and the response of fetch
  upOutcome,   \* uploadPDF: how the returned promise settled
  upLog,       \* uploadPDF: what console.error received
  upCount      \* number of uploadPDF calls

compVars == <<mindmaps, view, slots, zoomStates, timers, inflight, issued, passNo,
              now, crashed, clicks, downloads, bodyLinks, liveUrls, urlNo, exported,
              console, work>>
upVars == <<upPc, upReq, upOutcome, upLog, upCount>>
vars == <<compVars, upVars>>

\* ---------------------------------------------------- zoom (pure part)
\* zoomStates[`mindmap-${index}`]?.scale || 1
ScaleOf(z, i) == IF i \in DOMAIN z THEN z[i].scale ELSE DefaultScale

Max2(a, b) == IF a >= b THEN a ELSE b
Min2(a, b) == IF a <= b THEN a ELSE b

\* (variant: the lower clamp left out)
ZoomOutUnclamped(cur) == cur - ZoomStep
ZoomOutScale(cur) == Max2(MinScale, cur - ZoomStep)
ZoomInScale(cur) == Min2(MaxScale, cur + ZoomStep)

\* prev => ({...prev, [key]: {scale, mindmapId}})
SetZoom(z, i, s) ==
  [k \in (DOMAIN z) \cup {i} |->
     IF k = i THEN [scale |-> s, mindmapId |-> i] ELSE z[k]]

\* Math.round(scale * 100)
Percent(s) == s * 10

\* ---------------------------------------------------- the React render
Loading == [kind |-> "loading", svgId |-> -1, code |-> "", nested |-> FALSE,
            transform |-> 0, msg |-> ""]
\* (variant: the panel without the failure reason)
ErrorPanelNoReason(m) == [kind |-> "error", svgId |-> -1, code |-> "", nested |-> FALSE,
                          transform |-> 0, msg |-> ""]
ErrorPanel(m) == [kind |-> "error", svgId |-> -1, code |-> "", nested |-> FALSE,
                  transform |-> 0, msg |-> m]
\* result.svg of mermaid.render(id, code): the root svg carries the id it was given
Markup(id, c, n, t) == [kind |-> "svg", svgId |-> id, code |-> c, nested |-> n,
                        transform |-> t, msg |-> ""]

IsList(m) == m.present /\ Len(m.list) > 0
ViewOf(m) == IF IsList(m) THEN "list" ELSE "placeholder"

\* The cards of the list, keyed by index: a card that stays keeps its element and
\* whatever was injected into it; a new card starts on the spinner.
RenderSlots(old, m, z, p) ==
  IF ~IsList(m) THEN <<>>
  ELSE [k \in 1 .. Len(m.list) |->
          [id    |-> IF k <= Len(old) THEN old[k].id ELSE <<p, k - 1>>,
           html  |-> IF k <= Len(old) THEN old[k].html ELSE Loading,
           title |-> m.list[k].title,
           pct   |-> Percent(ScaleOf(z, k - 1))]]

\* element.innerHTML = html, seen through the document
WriteHtml(s, elem, html) ==
  [k \in DOMAIN s |-> IF s[k].id = elem THEN [s[k] EXCEPT !.html = html] ELSE s[k]]

\* ---------------------------------------------------------- the effect
\* (variants: the same delay for every index; no delay)
DelayFlat(index) == STAGGER
DelayNone(index) == 0
Delay(index) == index * STAGGER

\* mindmapElements.forEach((element, index) => setTimeout(..., index * 300))
NewTimers(m, s, z, p, t) ==
  IF IsList(m)
  THEN { [pass |-> p, index |-> k - 1, elem |-> s[k].id, mm |-> m.list, zoomSnap |-> z,
          delay |-> Delay(k - 1), start |-> t, due |-> t + Delay(k - 1)] : k \in 1 .. Len(s) }
  ELSE {}

\* no cleanup is returned by the effect: what is pending stays pending
\* (variant: a cleanup that clears the earlier pass's timers)
PendingCancelled(old, new) == new
Pending(old, new) == old \cup new

\* mindmaps.length on line 46 throws when the prop is absent
EffectThrows(m) == ~m.present

\* useState: the zoom map is not touched when the prop changes
\* (variant: the zoom map emptied on every pass)
ZoomReset(z) == <<>>
ZoomAfterPass(z) == z

\* console.error('Mermaid rendering error:', error) and
\* console.error('Mermaid general error:', e)
Logged(kind, p, i, m) == [kind |-> kind, pass |-> p, index |-> i, msg |-> m]

\* ------------------------------------------------- render and effect
\* One commit of the component with prop m: the render (lines 107-219), then the
\* effect (lines 26-99).  An error thrown by the effect leaves the component;
\* React then tears the tree down.
Cost(m) == IF IsList(m) THEN Len(m.list) ELSE 1

Commit(m, t) ==
  LET p == passNo + 1
      z == ZoomAfterPass(zoomStates)
      s == RenderSlots(slots, m, z, p)
  IN /\ mindmaps' = m
     /\ passNo' = p
     /\ work' = work + Cost(m)
     /\ zoomStates' = z
     /\ IF EffectThrows(m)
        THEN /\ view' = "none"
             /\ slots' = <<>>
             /\ crashed' = TRUE
             /\ timers' = timers
        ELSE /\ view' = ViewOf(m)
             /\ slots' = s
             /\ crashed' = crashed
             /\ timers' = Pending(timers, NewTimers(m, s, z, p, t))

\* ------------------------------------------------------------ uploadPDF
Files == {"f1", "f2"}
Statuses == {200, 201, 400, 404, 500, 503}
\* A response body: whether it parses as JSON, and if so its error field
NoBody == [parses |-> FALSE, hasError |-> FALSE, error |-> "", text |-> ""]
Bodies ==
  { [parses |-> FALSE, hasError |-> FALSE, error |-> "", text |-> "<html>"],
    [parses |-> TRUE, hasError |-> FALSE, error |-> "", text |-> "{ok:true}"],
    [parses |-> TRUE, hasError |-> TRUE, error |-> "bad file", text |-> "{error:'bad file'}"],
    [parses |-> TRUE, hasError |-> TRUE, error |-> "", text |-> "{error:''}"] }
GenericMessage == "Failed to upload file"
SyntaxMessage == "Unexpected token"
NetworkMessage == "Failed to fetch"
NoOutcome == [kind |-> "none", message |-> "", value |-> NoBody]
Resolved(b) == [kind |-> "resolved", message |-> "", value |-> b]
Rejected(m) == [kind |-> "rejected", message |-> m, value |-> NoBody]

\* response.ok
Ok(status) == status >= 200 /\ status <= 299

\* errorData.error || 'Failed to upload file'
ErrorMessage(b) == IF b.hasError /\ b.error # "" THEN b.error ELSE GenericMessage

\* Lines 15-20, once the response is there: response.json() rejects on a body
\* that does not parse, on either branch, and the catch rethrows what it caught.
Settle(status, b) ==
  IF ~b.parses THEN Rejected(SyntaxMessage)
  ELSE IF ~Ok(status) THEN Rejected(ErrorMessage(b))
  ELSE Resolved(b)

InitUpload ==
  /\ upPc = "idle"
  /\ upReq = [file |-> "", status |-> 0, body |-> NoBody]
  /\ upOutcome = NoOutcome
  /\ upLog = <<>>
  /\ upCount = 0

\* uploadPDF(file) up to the await of fetch (lines 5-13)
UploadCall(f) ==
  /\ upPc = "idle"
  /\ upCount < MaxUploads
  /\ upCount' = upCount + 1
  /\ upPc' = "fetch"
  /\ upReq' = [file |-> f, status |-> 0, body |-> NoBody]
  /\ upOutcome' = NoOutcome
  /\ UNCHANGED upLog
  /\ UNCHANGED compVars

\* fetch resolves with a response; the function goes on to await response.json()
FetchResolves(status, b) ==
  /\ upPc = "fetch"
  /\ upPc' = "json"
  /\ upReq' = [upReq EXCEPT !.status = status, !.body = b]
  /\ UNCHANGED <<upOutcome, upLog, upCount>>
  /\ UNCHANGED compVars

\* fetch rejects (no response): the catch logs and rethrows (lines 21-24)
FetchRejects ==
  /\ upPc = "fetch"
  /\ upPc' = "idle"
  /\ upOutcome' = Rejected(NetworkMessage)
  /\ upLog' = Append(upLog, NetworkMessage)
  /\ UNCHANGED <<upReq, upCount>>
  /\ UNCHANGED compVars

\* response.json() settles and the function ends (lines 15-24)
ReadBody ==
  /\ upPc = "json"
  /\ upPc' = "idle"
  /\ upOutcome' = Settle(upReq.status, upReq.body)
  /\ upLog' = IF upOutcome'.kind = "rejected" THEN Append(upLog, upOutcome'.message)
               ELSE upLog
  /\ UNCHANGED <<upReq, upCount>>
  /\ UNCHANGED compVars


\* The state after the component mounted with prop m.
Mounted(m) ==
  LET s == RenderSlots(<<>>, m, <<>>, 1)
  IN /\ mindmaps = m
     /\ passNo = 1
     /\ work = Cost(m)
     /\ zoomStates = <<>>
     /\ view = IF EffectThrows(m) THEN "none" ELSE ViewOf(m)
     /\ slots = IF EffectThrows(m) THEN <<>> ELSE s
     /\ crashed = EffectThrows(m)
     /\ timers = IF EffectThrows(m) THEN {} ELSE NewTimers(m, s, <<>>, 1, 0)
     /\ inflight = {}
     /\ issued = {}
     /\ now = 0
     /\ clicks = 0
     /\ downloads = <<>>
     /\ bodyLinks = {}
     /\ liveUrls = {}
     /\ urlNo = 0
     /\ exported = <<>>
     /\ console = {}

Init == (\E m \in Props : Mounted(m)) /\ InitUpload

\* The parent passes a new mindmaps prop.
SetMindmaps(m) ==
  /\ view # "none"
  /\ work + Cost(m) <= MaxTimers
  /\ Commit(m, now)
  /\ UNCHANGED <<inflight, issued, now, clicks, downloads, bodyLinks, liveUrls, urlNo,
                 exported, console>>
  /\ UNCHANGED upVars

\* ---------------------------------------------------------- zoom clicks
\* A click handler (lines 159-165, 176-182) and the render that follows it.
ZoomClick(i, dir) ==
  LET currentScale == ScaleOf(zoomStates, i)
      z == SetZoom(zoomStates, i,
                   IF dir = "out" THEN ZoomOutScale(currentScale)
                   ELSE ZoomInScale(currentScale))
  IN /\ view = "list"
     /\ i < Len(mindmaps.list)
     /\ zoomStates' = z
     /\ slots' = RenderSlots(slots, mindmaps, z, passNo)
     /\ UNCHANGED <<mindmaps, view, timers, inflight, issued, passNo, work, now, crashed,
                    downloads, bodyLinks, liveUrls, urlNo, exported, console>>
     /\ UNCHANGED upVars

ZoomOut(i) == ZoomClick(i, "out") /\ clicks < MaxZoomClicks /\ clicks' = clicks + 1
ZoomIn(i) == ZoomClick(i, "in") /\ clicks < MaxZoomClicks /\ clicks' = clicks + 1

\* ------------------------------------------------------ timers, renders
\* Timers run by due time, and by registration among equal due times.
Before(t, u) ==
  \/ t.due < u.due
  \/ t.due = u.due /\ t.pass < u.pass
  \/ t.due = u.due /\ t.pass = u.pass /\ t.index <= u.index

Call(t, at) ==
  [pass |-> t.pass, index |-> t.index, id |-> t.index, code |-> t.mm[t.index + 1].code,
   mm |-> t.mm, delay |-> t.delay, start |-> t.start, at |-> at]

Promise(t) ==
  [pass |-> t.pass, index |-> t.index, elem |-> t.elem, code |-> t.mm[t.index + 1].code,
   zoomSnap |-> t.zoomSnap]

\* The timer callback (lines 51-96): mermaid.render either returns a promise or
\* throws, and the throw is caught and logged (lines 93-95).
FireTimer(t, throws, e) ==
  /\ t \in timers
  /\ \A u \in timers : Before(t, u)
  /\ now' = Max2(now, t.due)
  /\ timers' = timers \ {t}
  /\ issued' = issued \cup {Call(t, now')}
  /\ inflight' = IF throws THEN inflight ELSE inflight \cup {Promise(t)}
  /\ console' = IF throws THEN console \cup {Logged("general", t.pass, t.index, e)}
                ELSE console
  /\ UNCHANGED <<mindmaps, view, slots, zoomStates, passNo, work, crashed, clicks,
                 downloads, bodyLinks, liveUrls, urlNo, exported>>
  /\ UNCHANGED upVars

\* The promise resolves and the success handler runs (lines 54-84); when the
\* handler throws message m after the insertion, the catch handler runs (85-92).
RenderResolve(p, nested, m) ==
  LET svg == Markup(p.index, p.code, nested, ScaleOf(p.zoomSnap, p.index))
      inserted == WriteHtml(slots, p.elem, svg)
  IN /\ p \in inflight
     /\ inflight' = inflight \ {p}
     /\ slots' = IF m = "" THEN inserted ELSE WriteHtml(inserted, p.elem, ErrorPanel(m))
     /\ console' = IF m = "" THEN console
                   ELSE console \cup {Logged("rendering", p.pass, p.index, m)}
     /\ UNCHANGED <<mindmaps, view, zoomStates, timers, issued, passNo, work, now, crashed,
                    clicks, downloads, bodyLinks, liveUrls, urlNo, exported>>
     /\ UNCHANGED upVars

\* The promise rejects with message m and the catch handler runs (lines 85-92).
RenderReject(p, m) ==
  /\ p \in inflight
  /\ inflight' = inflight \ {p}
  /\ slots' = WriteHtml(slots, p.elem, ErrorPanel(m))
  /\ console' = console \cup {Logged("rendering", p.pass, p.index, m)}
  /\ UNCHANGED <<mindmaps, view, zoomStates, timers, issued, passNo, work, now, crashed,
                 clicks, downloads, bodyLinks, liveUrls, urlNo, exported>>
  /\ UNCHANGED upVars

\* --------------------------------------------------------------- export
\* title.replace(/\s+/g, '_')
RECURSIVE ReplaceWs(_)
ReplaceWs(t) ==
  IF t = <<>> THEN <<>>
  ELSE IF Head(t) \in WS
       THEN IF Len(t) > 1 /\ t[2] \in WS THEN ReplaceWs(Tail(t))
            ELSE <<"_">> \o ReplaceWs(Tail(t))
       ELSE <<Head(t)>> \o ReplaceWs(Tail(t))

FileName(title) == ReplaceWs(title) \o <<"_mindmap.svg">>

\* containerRef.current?.querySelector(`#mindmap-${index} svg`): the cards holding
\* an svg that lies below an element with that id
QuerySvg(s, i) ==
  {k \in DOMAIN s : s[k].html.kind = "svg" /\ s[k].html.svgId = i /\ s[k].html.nested}

\* new XMLSerializer().serializeToString(node)
Serialize(part, html) == [part |-> part, code |-> html.code, transform |-> html.transform]

\* The export click handler (lines 135-149).
Export(i) ==
  /\ view = "list"
  /\ i < Len(mindmaps.list)
  /\ Len(exported) < MaxExports
  /\ exported' = Append(exported, i)
  /\ LET found == QuerySvg(slots, i)
     IN IF found = {}
        THEN UNCHANGED <<downloads, bodyLinks, liveUrls, urlNo>>
        ELSE LET k == CHOOSE x \in found : \A y \in found : x <= y
                 url == urlNo + 1
                 link == [href |-> url, download |-> FileName(mindmaps.list[i + 1].title)]
             IN /\ urlNo' = url
                /\ downloads' = Append(downloads,
                      [index |-> i, filename |-> link.download,
                       content |-> Serialize("inner", slots[k].html)])
                /\ bodyLinks' = (bodyLinks \cup {link}) \ {link}
                /\ liveUrls' = (liveUrls \cup {url}) \ {url}
  /\ UNCHANGED <<mindmaps, view, slots, zoomStates, timers, inflight, issued, passNo,
                 work, now, crashed, clicks, console>>
  /\ UNCHANGED upVars

Next ==
  \/ \E m \in Props : SetMindmaps(m)
  \/ \E i \in Indices : ZoomOut(i)
  \/ \E i \in Indices : ZoomIn(i)
  \/ \E t \in timers : FireTimer(t, FALSE, "")
  \/ \E t \in timers, e \in Msgs : FireTimer(t, TRUE, e)
  \/ \E p \in inflight, nested \in BOOLEAN, m \in Msgs \cup {""} : RenderResolve(p, nested, m)
  \/ \E p \in inflight, m \in Msgs : RenderReject(p, m)
  \/ \E i \in Indices : Export(i)

Spec == Init /\ [][Next]_vars

\* The render passes alone: prop changes, timers and renders.  Whether the
\* markup holds a nested svg is read by the export handler only.
NextRender ==
  \/ \E m \in Props : SetMindmaps(m)
  \/ \E t \in timers : FireTimer(t, FALSE, "")
  \/ \E t \in timers, e \in Msgs : FireTimer(t, TRUE, e)
  \/ \E p \in inflight, m \in Msgs \cup {""} : RenderResolve(p, FALSE, m)
  \/ \E p \in inflight, m \in Msgs : RenderReject(p, m)

SpecRender == Init /\ [][NextRender]_vars

\* Zoom clicks alone, any number of them.
ZoomOutAny(i) == ZoomClick(i, "out") /\ UNCHANGED clicks
ZoomInAny(i) == ZoomClick(i, "in") /\ UNCHANGED clicks

NextZoom ==
  \/ \E i \in Indices : ZoomOutAny(i)
  \/ \E i \in Indices : ZoomInAny(i)

SpecZoom == Init /\ [][NextZoom]_vars

\* Zoom clicks and prop changes.
NextView ==
  \/ \E m \in Props : SetMindmaps(m)
  \/ \E i \in Indices : ZoomOut(i)
  \/ \E i \in Indices : ZoomIn(i)

SpecView == Init /\ [][NextView]_vars

\* The upload client alone.
NextUpload ==
  \/ \E f \in Files : UploadCall(f)
  \/ \E status \in Statuses, b \in Bodies : FetchResolves(status, b)
  \/ FetchRejects
  \/ ReadBody

SpecUpload == Init /\ [][NextUpload]_vars


\* ================================================================ claims

\* C1: uploadPDF's outcome follows from the response alone: a success status
\* resolves to the parsed body; any other status rejects, with the body's error
\* field when the body parses and has it, and with the generic message when the
\* body does not parse or has no such field.
C1_OutcomeFromResponse ==
  (upPc = "idle" /\ upReq.status # 0 /\ upOutcome.kind # "none") =>
     IF upReq.status >= 200 /\ upReq.status <= 299
     THEN upReq.body.parses => upOutcome = Resolved(upReq.body)
     ELSE /\ upOutcome.kind = "rejected"
          /\ upOutcome.message =
               IF upReq.body.parses /\ upReq.body.hasError THEN upReq.body.error
               ELSE "Failed to upload file"

\* C2: every stored scale lies in [0.5, 2.0], and a step of the zoom map is a
\* step of one diagram by 0.1 up or down, set to the bound where it would leave
\* the range.
Clamped(x) == IF x < 5 THEN 5 ELSE IF x > 20 THEN 20 ELSE x
C2_ZoomRangeAndStep ==
  [][ /\ \A i \in Indices : ScaleOf(zoomStates, i) \in 5 .. 20
      /\ \A i \in Indices : ScaleOf(zoomStates', i) \in 5 .. 20
      /\ zoomStates' # zoomStates =>
           \E i \in Indices, d \in {-1, 1} :
              /\ ScaleOf(zoomStates', i) = Clamped(ScaleOf(zoomStates, i) + d)
              /\ \A j \in Indices \ {i} : ScaleOf(zoomStates', j) = ScaleOf(zoomStates, j) ]_vars
\* one diagram zoomed all the way out and another all the way in
C2_AtBothBounds ==
  /\ ScaleOf(zoomStates, 0) = 5
  /\ ScaleOf(zoomStates, 1) = 20

\* C3: for each diagram whose image is rendered, the shown percentage is
\* round(scale x 100) and the transform on the image is the stored scale.
C3_TransformFollowsScale ==
  \A k \in DOMAIN slots :
     slots[k].html.kind = "svg" =>
        /\ slots[k].pct = 10 * ScaleOf(zoomStates, k - 1)
        /\ slots[k].html.transform = ScaleOf(zoomStates, k - 1)

\* C4: a pass over N >= 1 entries has exactly N render calls, made or still to be
\* made, one per index with that entry's source text and delay index x 300, and
\* the calls of a pass are made in index order.
Tasks(p) ==
  {[index |-> t.index, mm |-> t.mm, delay |-> t.delay] : t \in {u \in timers : u.pass = p}}
    \cup {[index |-> c.index, mm |-> c.mm, delay |-> c.delay] : c \in {d \in issued : d.pass = p}}
C4_OneCallPerEntry ==
  /\ IsList(mindmaps) => \E x \in Tasks(passNo) : x.mm = mindmaps.list
  /\ \A p \in 1 .. passNo : \A x \in Tasks(p) :
        /\ Len(x.mm) >= 1
        /\ {y.index : y \in Tasks(p)} = 0 .. (Len(x.mm) - 1)
        /\ Cardinality(Tasks(p)) = Len(x.mm)
        /\ x.delay = x.index * 300
        /\ \A y \in Tasks(p) : y.mm = x.mm /\ (x.index < y.index => x.delay < y.delay)
  /\ \A c \in issued :
        /\ c.code = c.mm[c.index + 1].code
        /\ c.id = c.index
        /\ Cardinality({d \in issued : d.pass = c.pass /\ d.index = c.index}) = 1
        /\ \A t \in timers : t.pass = c.pass => t.index > c.index
\* a pass over two entries has made both of its calls
C4_TwoCallsMade ==
  \E c \in issued, d \in issued :
     /\ c.pass = d.pass /\ c.index = 0 /\ d.index = 1 /\ Len(c.mm) = 2
     /\ c.code # d.code
     /\ \A t \in timers : t.pass # c.pass

\* C5: with an empty or absent entry sequence the placeholder message is shown,
\* the pass schedules no timer and makes no render call, and no error leaves the
\* component.
C5_EmptyOrAbsent ==
  ~IsList(mindmaps) =>
     /\ view = "placeholder"
     /\ ~crashed
     /\ \A t \in timers : t.pass # passNo
     /\ \A c \in issued : c.pass # passNo

\* C6: when a render call's promise settles, its placeholder is no longer
\* loading; when it settles in failure with message M (rejected, or thrown by the
\* success handler), its placeholder shows the error panel with M, every other
\* placeholder is as before and no error leaves the component; a placeholder that
\* left the loading state does not return to it.
C6_FailureShownInPlace ==
  [][ /\ \A p \in inflight \ inflight' :
           /\ \A k \in DOMAIN slots : slots[k].id = p.elem => slots'[k].html.kind # "loading"
           /\ \A e \in console' \ console :
                /\ e.kind = "rendering" /\ e.pass = p.pass /\ e.index = p.index
                /\ \A k \in DOMAIN slots :
                     IF slots[k].id = p.elem
                     THEN slots'[k].html.kind = "error" /\ slots'[k].html.msg = e.msg
                     ELSE slots'[k] = slots[k]
                /\ crashed' = crashed
      /\ \A k \in DOMAIN slots \cap DOMAIN slots' :
           (slots[k].id = slots'[k].id /\ slots[k].html.kind # "loading")
              => slots'[k].html.kind # "loading" ]_vars
\* a failed render shows its message next to a placeholder it left alone
C6_PanelBesideOther ==
  \E e \in console : \E k \in DOMAIN slots, j \in DOMAIN slots :
     /\ e.kind = "rendering" /\ e.index = k - 1
     /\ slots[k].html.kind = "error" /\ slots[k].html.msg = e.msg
     /\ j # k /\ slots[j].html.kind = "svg"

\* C7: for a diagram whose render succeeded, an export click triggers exactly one
\* download, of the serialized image under the title with whitespace runs replaced
\* by '_' plus '_mindmap.svg', and leaves no link in the document and no object
\* URL alive.
C7_ExportDownloadsImage ==
  [][ exported' # exported =>
        LET i == exported'[Len(exported')]
        IN (i + 1 \in DOMAIN slots /\ slots[i + 1].html.kind = "svg") =>
              /\ downloads' = Append(downloads,
                    [index |-> i, filename |-> FileName(slots[i + 1].title),
                     content |-> Serialize("root", slots[i + 1].html)])
              /\ bodyLinks' = {}
              /\ liveUrls' = {} ]_vars

\* C8 as stated: never two render calls in flight at once.
C8_NeverTwoInFlight == Cardinality(inflight) <= 1
\* C8 as amended: the calls of a pass are staggered: the call for index i is made
\* no earlier than i x 300 ms after the pass started, after the calls for the
\* lower indices; no call waits for another to settle, and each entry of a pass
\* has at most one call in flight.
C8_StaggeredStarts ==
  /\ \A c \in issued :
        /\ c.at >= c.start + c.index * 300
        /\ \A d \in issued : (d.pass = c.pass /\ d.index < c.index) => d.at <= c.at
  /\ \A p \in inflight, q \in inflight :
        (p.pass = q.pass /\ p.index = q.index) => p = q
\* two calls of one pass in flight together
C8_TwoOfOnePassInFlight ==
  \E p \in inflight, q \in inflight : p.pass = q.pass /\ p.index # q.index

\* C9: nothing is cancelled: a pending timer stays pending until it runs and
\* makes its call, a pending render stays pending until it settles, and when it
\* settles its handler writes into its placeholder, whatever pass is current.
C9_NoCancellation ==
  [][ /\ \A t \in timers :
           \/ t \in timers'
           \/ \E c \in issued' \ issued :
                c.pass = t.pass /\ c.index = t.index /\ c.code = t.mm[t.index + 1].code
      /\ \A p \in inflight :
           \/ p \in inflight'
           \/ \A k \in DOMAIN slots :
                slots[k].id = p.elem =>
                   \/ slots'[k].html.kind = "svg" /\ slots'[k].html.code = p.code
                   \/ slots'[k].html.kind = "error" ]_vars
\* all tasks are done and a placeholder shows an entry that is not the current one
C9_StaleResultShown ==
  /\ timers = {}
  /\ inflight = {}
  /\ passNo >= 2
  /\ \E k \in DOMAIN slots :
        slots[k].html.kind = "svg" /\ slots[k].html.code # mindmaps.list[k].code

\* C10 as stated: when the entry sequence changes, every stored scale is 1.0 again.
C10_ZoomResetOnPass ==
  [][ passNo' # passNo => \A i \in Indices : ScaleOf(zoomStates', i) = 10 ]_vars
\* C10 as amended: when the entry sequence changes the zoom map is kept as it is:
\* a scale stored under an index applies to the entry now at that index, whose
\* shown percentage follows it.
C10_ZoomKeptOnPass ==
  [][ passNo' # passNo =>
        /\ zoomStates' = zoomStates
        /\ \A k \in DOMAIN slots' : slots'[k].pct = 10 * ScaleOf(zoomStates, k - 1)
        /\ \A t \in timers' \ timers : t.zoomSnap = zoomStates ]_vars
\* a later pass started with a scale other than 1.0 at index 0
C10_ScaleCarriedOver ==
  \E t \in timers : t.pass = passNo /\ t.pass >= 2 /\ ScaleOf(t.zoomSnap, 0) # 10

====
